---- MODULE Spec2Model ----
(***************************************************************************)
(* LD35Game: the software mixer fed by an mpsc command queue               *)
(* (src/src/main.rs, MixerCallback) and the channel-driven Shape.          *)
(*                                                                         *)
(* All quantities the source declares as f32 are modelled as IEEE-754      *)
(* binary32 values with round-to-nearest-even after every operation.  The  *)
(* state holds a value as its bit pattern, an integer, negated for a       *)
(* negative value (so that the order of the integers is the order of the   *)
(* values).  The arithmetic works on the unpacked form, a record [s, m, e] *)
(* standing for (-1)^s * m * 2^e, canonical: m in [2^23, 2^24) and         *)
(* e >= -149 (normal), or m < 2^23 and e = -149 (subnormal and zero).      *)
(* Infinities and NaN are never produced by the values the program         *)
(* computes here and are not represented.                                  *)
(***************************************************************************)
EXTENDS Integers, Sequences, FiniteSets, TLC

(***************************************************************************)
(* f32 arithmetic                                                          *)
(***************************************************************************)
MantBits == 24

MinExp == -149

Pow2(n) == 2 ^ n

\* 2^23, the implicit leading bit of a normal significand.
Hidden == 8388608

\* 2^24.
MantLimit == 16777216

Min(a, b) == IF a <= b THEN a ELSE b

Max(a, b) == IF a >= b THEN a ELSE b

\* Number of significant bits of a natural number below 2^30.
BitLen(m) ==
    IF m >= Hidden THEN (IF m < MantLimit THEN MantBits
                         ELSE CHOOSE k \in 25..30 : m < Pow2(k) /\ m >= Pow2(k - 1))
    ELSE CHOOSE k \in 0..23 : m < Pow2(k) /\ (k = 0 \/ m >= Pow2(k - 1))

R32Zero == [s |-> 0, m |-> 0, e |-> MinExp]

\* Exact value m * 2^e brought to canonical form (m < 2^24 required).
Normalize(s, m, e) ==
    IF m = 0 THEN R32Zero
    ELSE IF m >= Hidden THEN [s |-> s, m |-> m, e |-> e]
    ELSE LET sh == Min(MantBits - BitLen(m), e - MinExp)
         IN  [s |-> s, m |-> m * Pow2(sh), e |-> e - sh]

\* Remainder classes of a discarded tail relative to the last kept bit.
RemExact == "exact"

RemBelow == "below"

RemHalf == "half"

RemAbove == "above"

\* Class of the tail r out of 2^d (0 <= r < 2^d, 1 <= d <= 29).
RemClass(r, d) ==
    IF r = 0 THEN RemExact
    ELSE IF r < Pow2(d - 1) THEN RemBelow
    ELSE IF r = Pow2(d - 1) THEN RemHalf
    ELSE RemAbove

\* Round to nearest, ties to even: q is the kept significand (q < 2^24)
\* at exponent e, rem the class of what was discarded.
RoundQ(s, q, rem, e) ==
    LET up == rem = RemAbove \/ (rem = RemHalf /\ q % 2 = 1)
        q1 == IF up THEN q + 1 ELSE q
    IN  IF q1 = MantLimit THEN [s |-> s, m |-> Hidden, e |-> e + 1]
        ELSE Normalize(s, q1, e)

\* Integer to f32 (exact for |n| < 2^24, which is all the source uses).
R32FromInt(n) == Normalize(IF n < 0 THEN 1 ELSE 0, IF n < 0 THEN -n ELSE n, 0)

\* The 48-bit product of two significands as <<hi, lo>>, hi * 2^24 + lo,
\* computed on 12-bit limbs.
MulWide(ma, mb) ==
    LET ah == ma \div 4096
        al == ma % 4096
        bh == mb \div 4096
        bl == mb % 4096
        mid == ah * bl + al * bh
        low == (mid % 4096) * 4096 + al * bl
    IN  <<ah * bh + mid \div 4096 + low \div MantLimit, low % MantLimit>>

\* Number of significant bits of hi * 2^24 + lo.
WideLen(hi, lo) == IF hi = 0 THEN BitLen(lo) ELSE MantBits + BitLen(hi)

\* a * b, rounded.
R32Mul(a, b) ==
    LET s == (a.s + b.s) % 2
        p == MulWide(a.m, b.m)
        hi == p[1]
        lo == p[2]
        e == a.e + b.e
        d == Max(WideLen(hi, lo) - MantBits, MinExp - e)
    IN  IF hi = 0 /\ lo = 0 THEN [R32Zero EXCEPT !.s = s]
        ELSE IF d <= 0 THEN Normalize(s, lo, e)
        ELSE IF d <= MantBits
             THEN RoundQ(s, hi * Pow2(MantBits - d) + lo \div Pow2(d),
                         RemClass(lo % Pow2(d), d), e + d)
        ELSE IF d - MantBits > MantBits THEN RoundQ(s, 0, RemBelow, e + d)
        ELSE LET dh == d - MantBits
                 rh == hi % Pow2(dh)
                 cls == RemClass(rh, dh)
                 rem == IF lo = 0 THEN cls
                        ELSE IF cls = RemExact THEN RemBelow
                        ELSE IF cls = RemHalf THEN RemAbove
                        ELSE cls
             IN  RoundQ(s, hi \div Pow2(dh), rem, e + d)

\* |a| + |b| with sign s, rounded; a has the larger exponent.
AddMagOrdered(s, a, b) ==
    LET d == a.e - b.e
    IN  IF b.m = 0 THEN [a EXCEPT !.s = s]
        ELSE IF d > MantBits + 1 THEN RoundQ(s, a.m, RemBelow, a.e)
        ELSE LET hi == a.m + b.m \div Pow2(d)
                 r == b.m % Pow2(d)
             IN  IF hi < MantLimit
                 THEN RoundQ(s, hi, IF d = 0 THEN RemExact ELSE RemClass(r, d), a.e)
                 ELSE RoundQ(s, hi \div 2,
                             IF hi % 2 = 1
                             THEN (IF r = 0 THEN RemHalf ELSE RemAbove)
                             ELSE (IF r = 0 THEN RemExact ELSE RemBelow),
                             a.e + 1)

\* a + b for operands of the same sign, rounded.
R32Add(a, b) ==
    IF a.e >= b.e THEN AddMagOrdered(a.s, a, b) ELSE AddMagOrdered(a.s, b, a)

\* |a| - |b| with sign s, rounded, for |a| >= |b|: the operands are aligned
\* with three extra low bits, the last one collecting what b loses.
SubMagOrdered(s, a, b) ==
    LET d == a.e - b.e
        q == IF d > MantBits + 3 THEN 0 ELSE (b.m * 8) \div Pow2(d)
        lost == IF d > MantBits + 3 THEN b.m # 0 ELSE (b.m * 8) % Pow2(d) # 0
        y == IF lost /\ q % 2 = 0 THEN q + 1 ELSE q
        n == a.m * 8 - y
        e == a.e - 3
        dd == Max(BitLen(n) - MantBits, MinExp - e)
    IN  IF n = 0 THEN R32Zero
        ELSE IF dd <= 0 THEN Normalize(s, n, e)
        ELSE RoundQ(s, n \div Pow2(dd), RemClass(n % Pow2(dd), dd), e + dd)

\* a + b for operands of any sign, rounded.
R32Sum(a, b) ==
    IF a.s = b.s THEN R32Add(a, b)
    ELSE IF a.e > b.e \/ (a.e = b.e /\ a.m >= b.m) THEN SubMagOrdered(a.s, a, b)
    ELSE SubMagOrdered(b.s, b, a)

\* n further quotient bits of r / mb by long division: <<quotient, remainder>>.
RECURSIVE DivBits(_, _, _, _)
DivBits(acc, r, mb, n) ==
    IF n = 0 THEN <<acc, r>>
    ELSE IF 2 * r >= mb THEN DivBits(2 * acc + 1, 2 * r - mb, mb, n - 1)
    ELSE DivBits(2 * acc, 2 * r, mb, n - 1)

\* a / b for normal operands with a normal quotient, rounded.
R32Div(a, b) ==
    LET s == (a.s + b.s) % 2
        n == IF a.m >= b.m THEN MantBits - 1 ELSE MantBits
        qr == DivBits(a.m \div b.m, a.m % b.m, b.m, n)
        rem == IF qr[2] = 0 THEN RemExact
               ELSE IF 2 * qr[2] < b.m THEN RemBelow
               ELSE IF 2 * qr[2] = b.m THEN RemHalf
               ELSE RemAbove
    IN  RoundQ(s, qr[1], rem, a.e - b.e - n)

\* a % 2^k (Rust's % on f32 is fmod: exact, sign of the dividend).
R32ModPow2(a, k) ==
    IF a.e >= k THEN [R32Zero EXCEPT !.s = a.s]
    ELSE IF k - a.e >= MantBits THEN a
    ELSE Normalize(a.s, a.m % Pow2(k - a.e), a.e)

\* A decimal literal num/den of the source, converted as rustc does (to the
\* nearest f32); num and den are exactly representable, so the correctly
\* rounded quotient is that nearest value.
R32Lit(num, den) == R32Div(R32FromInt(num), R32FromInt(den))


(***************************************************************************)
(* f32 values as bit patterns                                              *)
(***************************************************************************)
\* Exponent field bias plus the 23 fraction bits: e = field - 150.
ExpOffset == 150

Unpack(b) ==
    LET a == IF b < 0 THEN -b ELSE b
        field == a \div Hidden
        frac == a % Hidden
    IN  [s |-> IF b < 0 THEN 1 ELSE 0,
         m |-> IF field = 0 THEN frac ELSE frac + Hidden,
         e |-> IF field = 0 THEN MinExp ELSE field - ExpOffset]

Pack(r) ==
    LET a == IF r.m < Hidden THEN r.m ELSE (r.e + ExpOffset) * Hidden + (r.m - Hidden)
    IN  IF r.s = 1 THEN -a ELSE a

F32Zero == Pack(R32Zero)

F32FromInt(n) == Pack(R32FromInt(n))

F32Lit(num, den) == Pack(R32Lit(num, den))

F32Mul(a, b) == Pack(R32Mul(Unpack(a), Unpack(b)))

F32Add(a, b) == Pack(R32Add(Unpack(a), Unpack(b)))

F32Div(a, b) == Pack(R32Div(Unpack(a), Unpack(b)))

F32ModPow2(a, k) == Pack(R32ModPow2(Unpack(a), k))

F32Sum(a, b) == Pack(R32Sum(Unpack(a), Unpack(b)))

F32Sub(a, b) == F32Sum(a, -b)

\* Comparisons of values are comparisons of the signed bit patterns.
F32Lt(a, b) == a < b

F32Le(a, b) == a <= b

(***************************************************************************)
(* Bounds of the model                                                     *)
(***************************************************************************)
\* Spec: commands sent by the game thread, invocations of the audio
\* callback, length of the callback's output buffer `out`.
MaxSends == 5

MaxCallbacks == 2

OutLen == 2

\* BeepSpec: the same for a run long enough to send two Beeps.
BeepSends == 8

BeepCallbacks == 2

BeepOutLen == 2

\* LongSpec: the same for one long output buffer.
LongSends == 4

LongCallbacks == 1

LongOutLen == 256

\* ShapeSpec: the largest num_points given to Shape::new, the number of
\* method calls on the shape, and the level whose shapes supply channels.
MaxPoints == 3

MaxShapeOps == 3

ShapeLevel == 1

\* FnSpec: updates made on the function-driven Shape.
MaxFnUpdates == 7

\* WaveSpec: evaluations of the wave functions in one run.
MaxWaveEvals == 2

\* GameSpec: mouse clicks handled in one run, and the longest run of
\* correct clicks the game has seen before the run starts.
MaxClicks == 2

MaxStartHits == 30

\* PopupSpec: popups pushed and frames drawn in one run.
MaxPopups == 3

MaxFrames == 3

\* BuildSpec: the highest level build_shapes is called with.
MaxBuildLevel == 31

\* TuneSpec: commands sent, invocations of the audio callback and length
\* of its output buffer, for a run with one click on a shape.
TuneSends == 7

TuneCallbacks == 2

TuneOutLen == 1

(***************************************************************************)
(* The f32 literals of the source, as bit patterns (rustc converts a       *)
(* decimal literal to the nearest f32).                                    *)
(***************************************************************************)
\* 44100.0 (0x472C4400): spec.freq as f32, the rate asked of the device.
freq == 1194083328

\* 1.0 (0x3F800000)
One == 1065353216

\* 8.0 (0x41000000)
BeepVolume == 1090519040

\* 0.995 (0x3F7EB852)
BeepDecay == 1065269330

\* 0.999 (0x3F7FBE77)
MixerKeep == 1065336439

\* 0.001 (0x3A83126F)
MixerBlend == 981668463

\* 0.5 (0x3F000000)
Half == 1056964608

\* 2.0 and -1.0 as f32 (lines 51, 54 and 61).
Two == 1073741824

MinusOne == -1065353216

\* 32.0 (the scale of a popup, lines 728 and 746) and 4.0 (line 590).
PopupScale == 1107296256

Four == 1082130432

\* 440.0, 880.0, 220.0, 110.0, 1670.0
Hz440 == 1138491392

Hz880 == 1146880000

Hz220 == 1130102784

Hz110 == 1121714176

Hz1670 == 1154531328

\* 8.0 = 2^3: the period of MixerCallback.time.
ClockPeriodLog2 == 3

\* 0.95 and 0.05 as f32, the weights of Shape::update (lines 311-312).
ShapeKeep == 1064514355

ShapeBlend == 1028443341

\* 440.0 / 8.0 as f32, the divisor of Shape::set_target (line 253).
ShapeDivisor == 1113325568

(***************************************************************************)
(* MixerChannel, MixerChannelParams                                        *)
(***************************************************************************)
Sine(f, v) == <<"Sine", f, v>>

Square(f, v) == <<"Square", f, v>>

Sawtooth(f, v) == <<"Sawtooth", f, v>>

Beep(f) == <<"Beep", f>>

MixerChannelParamsDefault == [phase_inc |-> F32Zero, phase |-> F32Zero, volume |-> F32Zero]

\* Indices of MixerCallback.channels / channel_targets.
Slots == 0..3

(***************************************************************************)
(* The command channel (std::sync::mpsc::channel): an unbounded FIFO.      *)
(***************************************************************************)
\* A channel of bounded capacity, whose send waits while it is full.
SendReadyBounded(q) == Len(q) < 2

\* Sender::send on the unbounded channel is ready whatever the queue holds.
SendReady(q) == TRUE

\* A channel that hands out the newest command first.
ChannelSendFront(q, c) == <<c>> \o q

\* Sender::send appends at the back.
ChannelSend(q, c) == Append(q, c)

\* Receiver::try_recv on a non-empty channel takes the front element.
\* A receive that returns the newest command.
TryRecvNewest(q) == q[Len(q)]

\* Receiver::try_recv returns the oldest command ...
TryRecvValue(q) == Head(q)

\* A receive that leaves the command in the queue.
TryRecvPeek(q) == q

\* ... and removes it from the queue.
TryRecvRest(q) == Tail(q)

(***************************************************************************)
(* MixerCallback::callback                                                 *)
(***************************************************************************)
\* The match with the Square arm writing the Sine slot.
ApplyCommandSharedSlot(targets, c) ==
    IF c[1] = "Sine"
    THEN [targets EXCEPT ![0] = [@ EXCEPT !.phase_inc = F32Div(c[2], freq), !.volume = c[3]]]
    ELSE IF c[1] = "Square"
    THEN [targets EXCEPT ![0] = [@ EXCEPT !.phase_inc = F32Div(c[2], freq), !.volume = c[3]]]
    ELSE IF c[1] = "Sawtooth"
    THEN [targets EXCEPT ![2] = [@ EXCEPT !.volume = c[3], !.phase_inc = F32Div(c[2], freq)]]
    ELSE [targets EXCEPT ![3] = [@ EXCEPT !.volume = BeepVolume,
                                          !.phase_inc = F32Div(c[2], freq),
                                          !.phase = F32Zero]]

\* The match on a received command (lines 126-149).
ApplyCommand(targets, c) ==
    IF c[1] = "Sine"
    THEN [targets EXCEPT ![0] = [@ EXCEPT !.phase_inc = F32Div(c[2], freq), !.volume = c[3]]]
    ELSE IF c[1] = "Square"
    THEN [targets EXCEPT ![1] = [@ EXCEPT !.phase_inc = F32Div(c[2], freq), !.volume = c[3]]]
    ELSE IF c[1] = "Sawtooth"
    THEN [targets EXCEPT ![2] = [@ EXCEPT !.volume = c[3], !.phase_inc = F32Div(c[2], freq)]]
    ELSE [targets EXCEPT ![3] = [@ EXCEPT !.volume = BeepVolume,
                                          !.phase_inc = F32Div(c[2], freq),
                                          !.phase = F32Zero]]

\* A phase advance without the wrap.
AdvancePhaseNoWrap(phase, phase_inc) == F32Add(phase, phase_inc)

\* Line 160: phase = (phase + phase_inc) % 1.0.
AdvancePhase(phase, phase_inc) == F32ModPow2(F32Add(phase, phase_inc), 0)

\* A blend whose weights do not add up to one.
MixerSmoothHeavy(v, target) == F32Add(F32Mul(v, MixerKeep), F32Mul(target, MixerKeep))

\* Lines 177-178: v = v * 0.999 + target * 0.001.
MixerSmooth(v, target) == F32Add(F32Mul(v, MixerKeep), F32Mul(target, MixerBlend))

\* A decay applied to the target volume of every slot.
DecayAllTargets(targets) ==
    [idx \in Slots |-> [targets[idx] EXCEPT !.volume = F32Mul(@, BeepDecay)]]

\* Line 169, executed for slot 3 before the blend of that slot.
DecayTargets(targets) ==
    [targets EXCEPT ![3] = [@ EXCEPT !.volume = F32Mul(@, BeepDecay)]]

\* One pass of the inner loop over the slots (lines 158-179) on the live
\* values; tg are the targets after line 169.
SampleChannels(ch, tg) ==
    [idx \in Slots |->
        [phase |-> AdvancePhase(ch[idx].phase, ch[idx].phase_inc),
         phase_inc |-> MixerSmooth(ch[idx].phase_inc, tg[idx].phase_inc),
         volume |-> MixerSmooth(ch[idx].volume, tg[idx].volume)]]

\* Line 182: time = (time + 1.0 / freq) % 8.0.
AdvanceClock(t) == F32ModPow2(F32Add(t, F32Div(One, freq)), ClockPeriodLog2)

(***************************************************************************)
(* build_shapes                                                            *)
(***************************************************************************)
\* A group whose volumes ignore `inverted`.
ShapeGroupPlain(f, inverted) ==
    [shape_idx \in 1..3 |->
        LET vol(k) == IF shape_idx - 1 = k THEN Half ELSE F32Zero
        IN  <<Sine(f, vol(0)), Square(f, vol(1)), Sawtooth(f, vol(2))>>]

\* The three shapes of one frequency group; inverted for the level >= 30
\* group, whose volumes use != instead of ==.
ShapeGroup(f, inverted) ==
    [shape_idx \in 1..3 |->
        LET vol(k) == IF (shape_idx - 1 = k) # inverted THEN Half ELSE F32Zero
        IN  <<Sine(f, vol(0)), Square(f, vol(1)), Sawtooth(f, vol(2))>>]

\* The set_channels of the shapes pushed before the shuffle (lines 356-425).
ShapePool(lvl) ==
    ShapeGroup(Hz440, FALSE)
    \o (IF lvl >= 5 THEN ShapeGroup(Hz880, FALSE) ELSE <<>>)
    \o (IF lvl >= 10 THEN ShapeGroup(Hz220, FALSE) ELSE <<>>)
    \o (IF lvl >= 20 THEN ShapeGroup(Hz110, FALSE) ELSE <<>>)
    \o (IF lvl >= 30 THEN ShapeGroup(Hz440, TRUE) ELSE <<>>)

\* swap_remove(i) followed by push: elements i and last change places.
SwapWithLast(s, i) ==
    [k \in 1..Len(s) |-> IF k = i THEN s[Len(s)] ELSE IF k = Len(s) THEN s[i] ELSE s[k]]

\* The orders the shuffle loop (lines 427-432) can leave after k iterations.
RECURSIVE Shuffled(_, _)
Shuffled(s, k) ==
    IF k = 0 THEN {s}
    ELSE UNION {{SwapWithLast(t, i) : i \in 1..Len(t)} : t \in Shuffled(s, k - 1)}

\* Lines 436-453: swap_remove(0) two or three times; the set_channels of
\* the shapes returned.
TakeShapes(lvl, s) ==
    IF lvl < 20
    THEN <<s[1], s[Len(s)]>>
    ELSE <<s[1], s[Len(s)], s[Len(s) - 1]>>

\* The set_channels of every list build_shapes(level) can return.
BuildShapes(lvl) ==
    {TakeShapes(lvl, s) : s \in Shuffled(ShapePool(lvl), Len(ShapePool(lvl)))}

\* rng.gen::<usize>() % 2 (lines 691, 758).
SelectedShapeIdxChoices == {0, 1}

\* The set_channels of shapes[selected_shape_idx] after build_shapes(level)
\* (lines 690-693 and 758-773): reset copies the new set_channels into the
\* old shapes, so both branches of line 761 leave the same set_channels.
PlayedChannels(lvl) ==
    {new_shapes[selected_shape_idx + 1] :
        new_shapes \in BuildShapes(lvl), selected_shape_idx \in SelectedShapeIdxChoices}

(***************************************************************************)
(* Shape                                                                   *)
(***************************************************************************)
\* Lines 311-312: v = v * 0.95 + target * 0.05.
ShapeSmooth(v, target) == F32Add(F32Mul(v, ShapeKeep), F32Mul(target, ShapeBlend))

\* Shape::sample_channels(x, t) (lines 280-305).  The Vec2d it returns is
\* built with cos and sin; a vertex is kept as the arguments of the call
\* that computed it.
sample_channels(x, t) == [x |-> x, t |-> t]

\* Vec2d::new(0.0, 0.0), the fill value of resize (line 236).
ZeroPoint == [x |-> F32Zero, t |-> F32Zero]

\* Vec::resize on an empty vector.
Resize(num_points, value) == [idx \in 1..num_points |-> value]

\* Shape::update (lines 307-324).
Update(self, tick, time) ==
    LET num_points == Len(self.points)
        mul_val == F32Div(One, F32FromInt(num_points))
    IN  [self EXCEPT
            !.channels = [idx \in 0..2 |->
                [@[idx] EXCEPT
                    !.phase_inc = ShapeSmooth(@, self.channel_targets[idx].phase_inc),
                    !.volume = ShapeSmooth(@, self.channel_targets[idx].volume)]],
            !.points = [idx \in 1..num_points |->
                sample_channels(F32Mul(F32FromInt(idx - 1), mul_val), time)]]

\* The match of Shape::set_target (lines 256-262).
TargetOf(c) ==
    IF c[1] = "Beep"
    THEN [phase_inc |-> F32Zero, volume |-> F32Zero]
    ELSE [phase_inc |-> F32Div(c[2], ShapeDivisor), volume |-> c[3]]

\* Shape::set_target (lines 251-269).
SetTarget(self, in_channels) ==
    [self EXCEPT
        !.channel_targets = [idx \in 0..2 |->
            [@[idx] EXCEPT !.phase_inc = TargetOf(in_channels[idx + 1]).phase_inc,
                           !.volume = TargetOf(in_channels[idx + 1]).volume]],
        !.set_channels = in_channels]

\* Shape::new (lines 215-240).
ShapeNew(in_position, num_points, in_channels) ==
    LET built == [position |-> in_position,
                  points |-> Resize(num_points, ZeroPoint),
                  channels |-> [idx \in 0..2 |-> MixerChannelParamsDefault],
                  channel_targets |-> [idx \in 0..2 |-> MixerChannelParamsDefault],
                  set_channels |-> in_channels,
                  is_selected |-> FALSE]
    IN  SetTarget(Update(built, F32Zero, F32Zero), in_channels)

\* A reset that takes over the whole of in_shape, vertex buffer included.
ResetWhole(self, in_shape) ==
    Update([in_shape EXCEPT !.channels = self.channels, !.is_selected = FALSE],
           F32Zero, F32Zero)

\* Shape::reset (lines 242-249).
Reset(self, in_shape) ==
    Update([self EXCEPT !.position = in_shape.position,
                        !.channel_targets = in_shape.channel_targets,
                        !.set_channels = in_shape.set_channels,
                        !.is_selected = FALSE],
           F32Zero, F32Zero)

\* The commands Shape::play_audio sends (lines 273-276), appended in order.
RECURSIVE SendAll(_, _, _)
SendAll(q, cs, idx) ==
    IF idx = 3 THEN q ELSE SendAll(ChannelSend(q, cs[idx + 1]), cs, idx + 1)

\* The draw_line calls of Shape::draw (lines 330-336), as pairs of vertex
\* indices.
DrawLines(self) ==
    LET num_points == Len(self.points)
    IN  [k \in 1..num_points |-> <<k - 1, k % num_points>>]

(***************************************************************************)
(* State                                                                   *)
(***************************************************************************)
VARIABLES
    queue,               \* commands in flight between audio_tx and MixerCallback.rx
    channels,            \* MixerCallback.channels
    channel_targets,     \* MixerCallback.channel_targets
    time,                \* MixerCallback.time
    cb_pc,               \* audio thread: "idle", "drain" (loop 119-153), "synth" (loop 155-183)
    cb_x,                \* elements of `out` already written by the running callback
    callbacks,           \* invocations of the callback started so far
    level,               \* main: level
    playing,             \* set_channels of shapes[selected_shape_idx], the shape play_audio runs on
    game_pc,             \* game thread: "play_audio" (inside Shape::play_audio) or "idle"
    play_idx,            \* idx of the loop of Shape::play_audio
    sent_log,            \* history: every command sent, in order
    applied_log,         \* history: every command applied to channel_targets, in order
    cb_base,             \* history: Len(applied_log) when the running callback started
    cb_pending,          \* history: the queue when the running callback started
    beep_age,            \* history: samples computed since a Beep was last applied
    wraps,               \* history: phase advances whose sum reached 1.0
    shape,               \* a Shape driven through its methods on its own
    shape_given,         \* history: num_points given to the Shape::new that built shape
    shape_ops,           \* history: method calls made on shape
    lines,               \* the draw_line calls of the last Shape::draw
    sm,                  \* a value under repeated smoothing: kind, v, target, from_zero
    fshape,              \* a function-driven Shape: current, next, morph, vertices
    fn_target,           \* history: the function given to the last set_next
    fn_since,            \* history: updates since the last set_next
    fn_quarter,          \* history: every update since the last set_next had tick = 0.25
    fn_swaps,            \* history: current/next swaps since the last set_next
    fn_updates,           \* history: updates made on fshape
    wave,                \* an input of the wave functions and their results
    wave_evals,          \* evaluations made
    score,               \* main: score
    score_multiplier,    \* main: score_multiplier
    high_score,          \* main: high_score
    file,                \* highscore.txt: exists, text
    shapes,              \* main: shapes, each Shape by its is_selected and set_channels
    selected_shape_idx,  \* main: selected_shape_idx
    clicks,              \* history: MouseButtonDown events handled
    last_click,          \* history: the last event: kind, branch, high_before,
                         \* mouse_pos
    popup_texts,         \* main: popup_texts
    popup_idx,           \* the idx of the popup loop
    popup_pc,            \* "idle" between frames, "loop" in the popup loop
    popup_frame,         \* history: tick, popup_texts at the start of the loop, draws made
    popup_steps,         \* history: iterations of the popup loop in this frame
    popup_count          \* history: popups pushed, frames drawn

mixer_vars == <<channels, channel_targets, time>>

audio_pos == <<cb_pc, cb_x, callbacks>>

game_vars == <<level, playing, game_pc, play_idx>>

history_vars == <<sent_log, applied_log, cb_base, cb_pending, beep_age, wraps>>

\* State of the runs that exercise Shape and the smoothing step alone.
fn_vars == <<fshape, fn_target, fn_since, fn_quarter, fn_swaps, fn_updates>>

\* State of the runs that exercise one part of the program alone, beyond
\* shape and sm.
wave_vars == <<wave, wave_evals>>

round_vars ==
    <<score, score_multiplier, high_score, file, shapes, selected_shape_idx, clicks, last_click>>

popup_vars == <<popup_texts, popup_idx, popup_pc, popup_frame, popup_steps, popup_count>>

aside_vars == <<fn_vars, wave_vars, round_vars, popup_vars>>

unit_vars == <<shape, shape_given, shape_ops, lines, sm, aside_vars>>

vars == <<queue, mixer_vars, audio_pos, game_vars, history_vars, unit_vars>>

(***************************************************************************)
(* main up to the event loop: the mixer as constructed (lines 619-644),    *)
(* the first shapes built and the first play_audio about to send.          *)
(***************************************************************************)
StartLevel == 1

\* shape and sm in a run that does not use them.
NoShape ==
    [position |-> <<0, 0>>,
     points |-> <<>>,
     channels |-> [idx \in 0..2 |-> MixerChannelParamsDefault],
     channel_targets |-> [idx \in 0..2 |-> MixerChannelParamsDefault],
     set_channels |-> <<>>,
     is_selected |-> FALSE]

NoSmooth == [kind |-> "none", v |-> F32Zero, target |-> F32Zero, from_zero |-> FALSE]

\* No function in a slot of a function-driven Shape.
NoFn == "none"

\* fshape and its history in a run that does not use them.
FnQuiet ==
    /\ fshape = [current |-> NoFn, next |-> NoFn, morph |-> F32Zero,
                 vertices |-> [from |-> NoFn, to |-> NoFn, morph |-> F32Zero]]
    /\ fn_target = NoFn
    /\ fn_since = 0
    /\ fn_quarter = FALSE
    /\ fn_swaps = 0
    /\ fn_updates = 0

\* wave before any evaluation.
WaveQuiet ==
    /\ wave = [x |-> F32Zero, next_x |-> F32Zero, square |-> F32Zero, sawtooth |-> F32Zero,
               next_square |-> F32Zero, next_sawtooth |-> F32Zero]
    /\ wave_evals = 0

\* highscore.txt when it does not exist.
NoFile == [exists |-> FALSE, text |-> <<>>]

\* The score, the high score and the shape list in a run that does not
\* follow them.
RoundQuiet ==
    /\ score = 0
    /\ score_multiplier = 1
    /\ high_score = 0
    /\ file = NoFile
    /\ shapes = <<>>
    /\ selected_shape_idx = 0
    /\ clicks = 0
    /\ last_click = [kind |-> "none", branch |-> "none", high_before |-> 0,
                   mouse_pos |-> <<0, 0>>]

\* Line 685, before any frame.
PopupQuiet ==
    /\ popup_texts = <<>>
    /\ popup_idx = 0
    /\ popup_pc = "idle"
    /\ popup_frame = [tick |-> F32Zero, start |-> <<>>, drawn |-> <<>>]
    /\ popup_steps = 0
    /\ popup_count = [pushed |-> 0, frames |-> 0]

\* The variables of aside_vars in a run that does not use them.
AsideInit == FnQuiet /\ WaveQuiet /\ RoundQuiet /\ PopupQuiet

Init ==
    /\ queue = <<>>
    /\ channels = [idx \in Slots |-> MixerChannelParamsDefault]
    /\ channel_targets = [idx \in Slots |-> MixerChannelParamsDefault]
    /\ time = F32Zero
    /\ cb_pc = "idle"
    /\ cb_x = 0
    /\ callbacks = 0
    /\ level = StartLevel
    /\ playing \in PlayedChannels(StartLevel)
    /\ game_pc = "play_audio"
    /\ play_idx = 0
    /\ sent_log = <<>>
    /\ applied_log = <<>>
    /\ cb_base = 0
    /\ cb_pending = <<>>
    /\ beep_age = 0
    /\ wraps = 0
    /\ shape = NoShape
    /\ shape_given = 0
    /\ shape_ops = 0
    /\ lines = <<>>
    /\ sm = NoSmooth
    /\ AsideInit

(***************************************************************************)
(* Game thread                                                             *)
(***************************************************************************)
\* One iteration of the loop of Shape::play_audio (lines 273-276); after
\* the last one play_audio returns to the event loop.
PlayAudioSend(max_sends) ==
    /\ game_pc = "play_audio"
    /\ Len(sent_log) < max_sends
    /\ SendReady(queue)
    /\ LET c == playing[play_idx + 1]
       IN  /\ queue' = ChannelSend(queue, c)
           /\ sent_log' = Append(sent_log, c)
    /\ IF play_idx + 1 < 3
       THEN /\ play_idx' = play_idx + 1
            /\ UNCHANGED game_pc
       ELSE /\ play_idx' = 0
            /\ game_pc' = "idle"
    /\ UNCHANGED <<mixer_vars, audio_pos, level, playing,
                   applied_log, cb_base, cb_pending, beep_age, wraps, unit_vars>>

\* A wrong click that leaves out the clamp of lines 741-744.
LevelAfterMissUnclamped(lvl) == (lvl * 3) \div 4

\* Lines 736-744 on level.
LevelAfterMiss(lvl) == Max(1, (lvl * 3) \div 4)

\* Event::MouseButtonDown on a shape (lines 719-773) up to the call of
\* play_audio; hit says whether the shape clicked has is_selected.  The
\* Beep is sent, level is updated, the next round's shapes are built and
\* the shape to play is drawn.
MouseButtonDown(hit, max_sends) ==
    /\ game_pc = "idle"
    /\ Len(sent_log) < max_sends
    /\ SendReady(queue)
    /\ LET c == IF hit THEN Beep(Hz1670) ELSE Beep(Hz110)
       IN  /\ queue' = ChannelSend(queue, c)
           /\ sent_log' = Append(sent_log, c)
    /\ level' = IF hit THEN level + 1 ELSE LevelAfterMiss(level)
    /\ playing' \in PlayedChannels(level')
    /\ game_pc' = "play_audio"
    /\ play_idx' = 0
    /\ UNCHANGED <<mixer_vars, audio_pos, applied_log, cb_base, cb_pending, beep_age, wraps,
                   unit_vars>>

(***************************************************************************)
(* Audio thread: MixerCallback::callback                                   *)
(***************************************************************************)
\* The audio device invokes the callback.
CallbackStart(max_callbacks) ==
    /\ cb_pc = "idle"
    /\ callbacks < max_callbacks
    /\ callbacks' = callbacks + 1
    /\ cb_pc' = "drain"
    /\ cb_x' = 0
    /\ cb_base' = Len(applied_log)
    /\ cb_pending' = queue
    /\ UNCHANGED <<queue, mixer_vars, game_vars, sent_log, applied_log, beep_age, wraps,
                   unit_vars>>

\* Control flow of a successful try_recv (line 121): the loop goes on with
\* the command taken out of the queue.
TryRecvOkControl ==
    /\ cb_pc = "drain"
    /\ queue # <<>>
    /\ queue' = TryRecvRest(queue)
    /\ UNCHANGED audio_pos

\* try_recv returns Ok(channel): lines 121-150.
TryRecvOk ==
    /\ TryRecvOkControl
    /\ LET c == TryRecvValue(queue)
       IN  /\ channel_targets' = ApplyCommand(channel_targets, c)
           /\ applied_log' = Append(applied_log, c)
           /\ beep_age' = IF c[1] = "Beep" THEN 0 ELSE beep_age
    /\ UNCHANGED <<channels, time, game_vars, sent_log, cb_base, cb_pending, wraps, unit_vars>>

\* try_recv returns Err: break 'running (line 151).
TryRecvErr ==
    /\ cb_pc = "drain"
    /\ queue = <<>>
    /\ cb_pc' = "synth"
    /\ UNCHANGED <<queue, mixer_vars, cb_x, callbacks, game_vars, history_vars, unit_vars>>

\* Control flow of `for x in out.iter_mut()` (line 155): one more element
\* is written, and after the last one the callback returns.
SampleControl(out_len) ==
    /\ cb_pc = "synth"
    /\ cb_x < out_len
    /\ cb_x' = cb_x + 1
    /\ cb_pc' = IF cb_x + 1 = out_len THEN "idle" ELSE "synth"
    /\ UNCHANGED <<queue, callbacks>>

\* One iteration of `for x in out.iter_mut()` (lines 155-183).  The value
\* written to *x is a sum of sines and is not part of the state; after the
\* last element the callback returns.
Sample(out_len) ==
    /\ SampleControl(out_len)
    /\ LET tg == DecayTargets(channel_targets)
       IN  /\ channel_targets' = tg
           /\ channels' = SampleChannels(channels, tg)
    /\ time' = AdvanceClock(time)
    /\ beep_age' = beep_age + 1
    /\ wraps' = wraps + Cardinality({idx \in Slots :
                    F32Le(One, F32Add(channels[idx].phase, channels[idx].phase_inc))})
    /\ UNCHANGED <<game_vars, sent_log, applied_log, cb_base, cb_pending, unit_vars>>

Next ==
    \/ PlayAudioSend(MaxSends)
    \/ \E hit \in BOOLEAN : MouseButtonDown(hit, MaxSends)
    \/ CallbackStart(MaxCallbacks)
    \/ TryRecvOk
    \/ TryRecvErr
    \/ Sample(OutLen)

Spec == Init /\ [][Next]_vars

\* The same program with one long output buffer.
LongNext ==
    \/ PlayAudioSend(LongSends)
    \/ \E hit \in BOOLEAN : MouseButtonDown(hit, LongSends)
    \/ CallbackStart(LongCallbacks)
    \/ TryRecvOk
    \/ TryRecvErr
    \/ Sample(LongOutLen)

LongSpec == Init /\ [][LongNext]_vars

\* The same program over a run long enough to send two Beeps.
BeepNext ==
    \/ PlayAudioSend(BeepSends)
    \/ \E hit \in BOOLEAN : MouseButtonDown(hit, BeepSends)
    \/ CallbackStart(BeepCallbacks)
    \/ TryRecvOk
    \/ TryRecvErr
    \/ Sample(BeepOutLen)

BeepSpec == Init /\ [][BeepNext]_vars

\* A step of the audio thread seen on the queue and the position of the
\* callback alone.  The rest of TryRecvOk and Sample assigns values that
\* are always defined, so each control part is enabled exactly when its
\* step is, and in a behaviour of Next a step of a control part is a
\* step of the callback.
AudioStep == TryRecvOkControl \/ TryRecvErr \/ SampleControl(OutLen)

\* Spec with the audio thread scheduled: a callback that can take a step
\* eventually takes one.
LiveSpec == Init /\ [][Next]_vars /\ WF_<<queue, audio_pos>>(AudioStep)

(***************************************************************************)
(* A Shape driven through its methods                                      *)
(***************************************************************************)
main_vars == <<queue, mixer_vars, audio_pos, game_vars, history_vars>>

Range(s) == {s[k] : k \in DOMAIN s}

\* pos[0] and pos[1] of build_shapes (lines 351-352) and the position
\* Shape::new is called with (line 366), in pixels.
PositionChoices == {<<0, 0>>, <<256, 384>>}

\* The channel triples build_shapes passes to Shape::new at ShapeLevel.
ChannelChoices == Range(ShapePool(ShapeLevel))

\* The time argument main passes to update (line 784), and 0.
TimeChoices == {F32Zero, One}

ShapeInit ==
    /\ queue = <<>>
    /\ channels = [idx \in Slots |-> MixerChannelParamsDefault]
    /\ channel_targets = [idx \in Slots |-> MixerChannelParamsDefault]
    /\ time = F32Zero
    /\ cb_pc = "idle"
    /\ cb_x = 0
    /\ callbacks = 0
    /\ level = ShapeLevel
    /\ playing = <<>>
    /\ game_pc = "idle"
    /\ play_idx = 0
    /\ sent_log = <<>>
    /\ applied_log = <<>>
    /\ cb_base = 0
    /\ cb_pending = <<>>
    /\ beep_age = 0
    /\ wraps = 0
    /\ \E in_position \in PositionChoices, num_points \in 0..MaxPoints,
          in_channels \in ChannelChoices :
            /\ shape = ShapeNew(in_position, num_points, in_channels)
            /\ shape_given = num_points
    /\ shape_ops = 0
    /\ lines = <<>>
    /\ sm = NoSmooth
    /\ AsideInit

\* shape.update(tick, time); update does not read tick.
ShapeUpdate ==
    /\ shape_ops < MaxShapeOps
    /\ \E time_arg \in TimeChoices : shape' = Update(shape, F32Zero, time_arg)
    /\ shape_ops' = shape_ops + 1
    /\ UNCHANGED <<main_vars, shape_given, lines, sm, aside_vars>>

\* shape.set_target(in_channels).
ShapeSetTarget ==
    /\ shape_ops < MaxShapeOps
    /\ \E in_channels \in ChannelChoices : shape' = SetTarget(shape, in_channels)
    /\ shape_ops' = shape_ops + 1
    /\ UNCHANGED <<main_vars, shape_given, lines, sm, aside_vars>>

\* shape.reset(&in_shape) for an in_shape built by Shape::new.
ShapeReset ==
    /\ shape_ops < MaxShapeOps
    /\ \E in_position \in PositionChoices, num_points \in 0..MaxPoints,
          in_channels \in ChannelChoices :
            shape' = Reset(shape, ShapeNew(in_position, num_points, in_channels))
    /\ shape_ops' = shape_ops + 1
    /\ UNCHANGED <<main_vars, shape_given, lines, sm, aside_vars>>

\* shape.play_audio(&audio_tx).
ShapePlayAudio ==
    /\ shape_ops < MaxShapeOps
    /\ queue' = SendAll(queue, shape.set_channels, 0)
    /\ sent_log' = sent_log \o shape.set_channels
    /\ shape' = [shape EXCEPT !.is_selected = TRUE]
    /\ shape_ops' = shape_ops + 1
    /\ UNCHANGED <<mixer_vars, audio_pos, game_vars, applied_log, cb_base, cb_pending,
                   beep_age, wraps, shape_given, lines, sm, aside_vars>>

\* shape.draw(renderer, color).
ShapeDraw ==
    /\ shape_ops < MaxShapeOps
    /\ lines' = DrawLines(shape)
    /\ shape_ops' = shape_ops + 1
    /\ UNCHANGED <<main_vars, shape, shape_given, sm, aside_vars>>

ShapeNext ==
    \/ ShapeUpdate
    \/ ShapeSetTarget
    \/ ShapeReset
    \/ ShapePlayAudio
    \/ ShapeDraw

ShapeSpec == ShapeInit /\ [][ShapeNext]_vars

(***************************************************************************)
(* The smoothing step repeated on one value                                *)
(***************************************************************************)
\* The frequencies and volumes build_shapes puts into commands.
GameFrequencies == {sh[k][2] : sh \in Range(ShapePool(30)), k \in 1..3}

GameVolumes == {sh[k][3] : sh \in Range(ShapePool(30)), k \in 1..3}

\* The fixed targets the mixer gets from the game (lines 126-141 and 146),
\* and those Shape::set_target computes.
MixerTargets ==
    {F32Div(f, freq) : f \in GameFrequencies \cup {Hz1670, Hz110}} \cup GameVolumes

ShapeTargets == {TargetOf(Sine(f, F32Zero)).phase_inc : f \in GameFrequencies} \cup GameVolumes

\* Non-negative f32 pairs <<v, target>> with v at or next to the target,
\* and a descent from 0.5 to 0.
NearTargetPairs ==
    {<<998145769, 998145769>>, <<16786217, 16786226>>, <<1040962653, 1040962653>>,
     <<17218775, 17218774>>, <<500, 500>>, <<4194309, 4194309>>, <<Half, F32Zero>>}

SmoothInputs ==
    {[kind |-> k, v |-> F32Zero, target |-> t, from_zero |-> TRUE] :
        k \in {"mixer"}, t \in MixerTargets}
    \cup {[kind |-> k, v |-> F32Zero, target |-> t, from_zero |-> TRUE] :
        k \in {"shape"}, t \in ShapeTargets}
    \cup {[kind |-> k, v |-> pr[1], target |-> pr[2], from_zero |-> FALSE] :
        k \in {"mixer", "shape"}, pr \in NearTargetPairs}

SmoothInit ==
    /\ queue = <<>>
    /\ channels = [idx \in Slots |-> MixerChannelParamsDefault]
    /\ channel_targets = [idx \in Slots |-> MixerChannelParamsDefault]
    /\ time = F32Zero
    /\ cb_pc = "idle"
    /\ cb_x = 0
    /\ callbacks = 0
    /\ level = StartLevel
    /\ playing = <<>>
    /\ game_pc = "idle"
    /\ play_idx = 0
    /\ sent_log = <<>>
    /\ applied_log = <<>>
    /\ cb_base = 0
    /\ cb_pending = <<>>
    /\ beep_age = 0
    /\ wraps = 0
    /\ shape = NoShape
    /\ shape_given = 0
    /\ shape_ops = 0
    /\ lines = <<>>
    /\ sm \in SmoothInputs
    /\ AsideInit

\* One sample of the mixer on the value (lines 177-178).
MixerSmoothStep ==
    /\ sm.kind = "mixer"
    /\ sm' = [sm EXCEPT !.v = MixerSmooth(sm.v, sm.target)]
    /\ UNCHANGED <<main_vars, shape, shape_given, shape_ops, lines, aside_vars>>

\* One Shape::update on the value (lines 311-312).
ShapeSmoothStep ==
    /\ sm.kind = "shape"
    /\ sm' = [sm EXCEPT !.v = ShapeSmooth(sm.v, sm.target)]
    /\ UNCHANGED <<main_vars, shape, shape_given, shape_ops, lines, aside_vars>>

SmoothNext == MixerSmoothStep \/ ShapeSmoothStep

SmoothSpec == SmoothInit /\ [][SmoothNext]_vars

(***************************************************************************)
(* The function-driven Shape.  src/ declares only the type of its          *)
(* functions (PointFunc, line 195); its behaviour is taken from the        *)
(* description of the Shape: vertices are lerp(f_current, f_next, morph);  *)
(* morph increases by tick each update once a next function is set; when   *)
(* morph > 1 the next function becomes current, morph resets to 0 and the  *)
(* other slot is cleared.                                                  *)
(***************************************************************************)
\* The state of the game, the mixer and the channel-driven Shape.
base_vars == <<main_vars, shape, shape_given, shape_ops, lines, sm>>

\* The main state and the unit state at rest, for runs that use neither.
MainQuietAt(lvl) ==
    /\ queue = <<>>
    /\ channels = [idx \in Slots |-> MixerChannelParamsDefault]
    /\ channel_targets = [idx \in Slots |-> MixerChannelParamsDefault]
    /\ time = F32Zero
    /\ cb_pc = "idle"
    /\ cb_x = 0
    /\ callbacks = 0
    /\ level = lvl
    /\ playing = <<>>
    /\ game_pc = "idle"
    /\ play_idx = 0
    /\ sent_log = <<>>
    /\ applied_log = <<>>
    /\ cb_base = 0
    /\ cb_pending = <<>>
    /\ beep_age = 0
    /\ wraps = 0

UnitQuiet ==
    /\ shape = NoShape
    /\ shape_given = 0
    /\ shape_ops = 0
    /\ lines = <<>>
    /\ sm = NoSmooth

\* The program before the first click and the first frame, nothing called.
QuietInit == MainQuietAt(StartLevel) /\ UnitQuiet /\ AsideInit

\* tick = 0.25 as f32.
QuarterTick == 1048576000

\* The point functions a Shape can be given, by name.
FunctionChoices == {"f", "g", "h"}

\* The vertices of a Shape, as the evaluation that computed them: of one
\* function when no next function is set, else the lerp of two at morph.
FnVertices(current, next, morph) ==
    IF next = NoFn
    THEN [from |-> current, to |-> NoFn, morph |-> F32Zero]
    ELSE [from |-> current, to |-> next, morph |-> morph]

\* new(position, vertex_count, function).
FnNew(f) ==
    [current |-> f, next |-> NoFn, morph |-> F32Zero, vertices |-> FnVertices(f, NoFn, F32Zero)]

\* set_next(function): starts a morph.
FnSetNext(self, f) == [self EXCEPT !.next = f, !.morph = F32Zero]

\* An update that completes the morph as soon as morph reaches 1.
FnUpdateAtOne(self, tick) ==
    LET advanced == IF self.next = NoFn THEN self.morph ELSE F32Add(self.morph, tick)
    IN  IF self.next # NoFn /\ F32Le(One, advanced)
        THEN FnNew(self.next)
        ELSE [self EXCEPT !.morph = advanced,
                          !.vertices = FnVertices(self.current, self.next, advanced)]

\* update(tick, time): morph advances by tick while a next function is
\* set; when morph > 1 the next function becomes current, morph resets to
\* 0 and the other slot is cleared; then the vertices are recomputed.
FnUpdate(self, tick) ==
    LET advanced == IF self.next = NoFn THEN self.morph ELSE F32Add(self.morph, tick)
    IN  IF self.next # NoFn /\ F32Lt(One, advanced)
        THEN FnNew(self.next)
        ELSE [self EXCEPT !.morph = advanced,
                          !.vertices = FnVertices(self.current, self.next, advanced)]

FnInit ==
    /\ MainQuietAt(StartLevel)
    /\ UnitQuiet
    /\ WaveQuiet
    /\ RoundQuiet
    /\ PopupQuiet
    /\ \E f \in FunctionChoices : fshape = FnNew(f)
    /\ fn_target = NoFn
    /\ fn_since = 0
    /\ fn_quarter = FALSE
    /\ fn_swaps = 0
    /\ fn_updates = 0

\* shape.set_next(f) on a settled shape.
FnShapeSetNext ==
    /\ fshape.next = NoFn
    /\ \E f \in FunctionChoices \ {fshape.current} :
          /\ fshape' = FnSetNext(fshape, f)
          /\ fn_target' = f
    /\ fn_since' = 0
    /\ fn_quarter' = TRUE
    /\ fn_swaps' = 0
    /\ UNCHANGED <<base_vars, wave_vars, round_vars, popup_vars, fn_updates>>

\* shape.update(tick, time).
FnShapeUpdate ==
    /\ fn_updates < MaxFnUpdates
    /\ \E tick \in {QuarterTick, Half} :
          /\ fshape' = FnUpdate(fshape, tick)
          /\ fn_quarter' = (fn_quarter /\ tick = QuarterTick)
    /\ fn_since' = fn_since + 1
    /\ fn_swaps' = fn_swaps + (IF fshape'.current # fshape.current THEN 1 ELSE 0)
    /\ fn_updates' = fn_updates + 1
    /\ UNCHANGED <<base_vars, wave_vars, round_vars, popup_vars, fn_target>>

FnSpec == FnInit /\ [][FnShapeSetNext \/ FnShapeUpdate]_vars

(***************************************************************************)
(* The wave functions (lines 44-62) on their own                           *)
(***************************************************************************)
\* A square wave that is low from mod_x = 1.0 on.
square_wave_low_at_one(x) ==
    LET mod_x == F32ModPow2(F32Mul(x, Two), 1)
    IN  IF F32Le(One, mod_x) THEN MinusOne ELSE One

\* Lines 49-57.
square_wave(x) ==
    LET mod_x == F32ModPow2(F32Mul(x, Two), 1)
    IN  IF F32Lt(One, mod_x) THEN MinusOne ELSE One

\* A sawtooth that does not reduce x first.
sawtooth_wave_unreduced(x) == F32Sub(F32Mul(x, Two), One)

\* Lines 59-62.
sawtooth_wave(x) == F32Sub(F32Mul(F32ModPow2(x, 0), Two), One)

\* Arguments x: the multiples of 1/32 from -2 to 3, values that are not
\* dyadic (k/10, 1/3), the neighbours of 1.0 and of 0.5, and a small and
\* a large magnitude of either sign.
WaveInputs ==
    {F32Div(F32FromInt(k), F32FromInt(32)) : k \in -64..96}
        \cup {F32Div(F32FromInt(k), F32FromInt(10)) : k \in {-17, -9, -3, 1, 3, 7, 9, 13, 27}}
        \cup {F32Div(F32FromInt(k), F32FromInt(3)) : k \in {-1, 1, 2}}
        \cup {1065353215, 1065353217, 1056964607, 1056964609, -1065353215,
              813694976, -813694976, 1266679808, -1266679808, 1291845632}

\* square_wave and sawtooth_wave called on x and on x + 1.0.
WaveEval ==
    /\ wave_evals < MaxWaveEvals
    /\ \E x \in WaveInputs :
          LET next_x == F32Sum(x, One)
          IN  wave' = [x |-> x, next_x |-> next_x,
                       square |-> square_wave(x), sawtooth |-> sawtooth_wave(x),
                       next_square |-> square_wave(next_x),
                       next_sawtooth |-> sawtooth_wave(next_x)]
    /\ wave_evals' = wave_evals + 1
    /\ UNCHANGED <<base_vars, fn_vars, round_vars, popup_vars>>

WaveSpec == QuietInit /\ [][WaveEval]_vars

(***************************************************************************)
(* The round: score, level, high score and the shape list (main)           *)
(***************************************************************************)
\* format_args!("{}", n) for an i32 (line 755): the decimal digits, after a
\* minus sign when n < 0.
Format(n) ==
    LET digit == <<"0", "1", "2", "3", "4", "5", "6", "7", "8", "9">>
        RECURSIVE Digits(_)
        Digits(m) ==
            IF m < 10 THEN <<digit[m + 1]>>
            ELSE Append(Digits(m \div 10), digit[(m % 10) + 1])
    IN  IF n < 0 THEN <<"-">> \o Digits(-n) ELSE Digits(n)

\* s.parse::<i32>() (line 675): an optional sign and at least one decimal
\* digit, nothing else, the value within i32; [ok, v].
Parse(s) ==
    LET signed == Len(s) > 0 /\ s[1] \in {"+", "-"}
        negative == Len(s) > 0 /\ s[1] = "-"
        body == IF signed THEN Tail(s) ELSE s
        value(c) == CHOOSE d \in 0..9 : Format(d) = <<c>>
        fits(acc, d) ==
            acc < 214748364 \/ (acc = 214748364 /\ d <= (IF negative THEN 8 ELSE 7))
        RECURSIVE Value(_, _)
        Value(acc, i) ==
            IF i > Len(body) THEN acc
            ELSE IF ~fits(acc, value(body[i])) THEN -1
            ELSE IF acc = 214748364 /\ value(body[i]) = 8
                 THEN (IF i = Len(body) THEN -2 ELSE -1)
            ELSE Value(acc * 10 + value(body[i]), i + 1)
        digits == Len(body) > 0 /\ \A i \in 1..Len(body) : \E d \in 0..9 : Format(d) = <<body[i]>>
        v == IF digits THEN Value(0, 1) ELSE -1
    IN  IF ~digits \/ v = -1 THEN [ok |-> FALSE, v |-> 0]
        ELSE IF v = -2 THEN [ok |-> TRUE, v |-> -2147483647 - 1]
        ELSE [ok |-> TRUE, v |-> IF negative THEN -v ELSE v]

\* Lines 664-682: high_score at startup; 0 when the file is missing or
\* does not parse.
ReadHighScore(f) == IF f.exists /\ Parse(f.text).ok THEN Parse(f.text).v ELSE 0

\* highscore.txt as the game can find it at startup.
FileChoices ==
    {NoFile}
        \cup {[exists |-> TRUE, text |-> t] :
                t \in {<<>>, <<"x">>, <<"1", "2", "\n">>, <<" ", "7">>, <<"-">>,
                       <<"0">>, <<"4", "0">>, <<"+", "7">>, <<"-", "5">>, <<"0", "0", "9">>,
                       <<"2", "0", "0", "0">>,
                       <<"2", "1", "4", "7", "4", "8", "3", "6", "4", "7">>,
                       <<"2", "1", "4", "7", "4", "8", "3", "6", "4", "8">>,
                       <<"-", "2", "1", "4", "7", "4", "8", "3", "6", "4", "8">>}}

\* A high score that is never raised.
HighScoreKept(new_score, g) == [high_score |-> g.high_score, file |-> g.file]

\* Lines 751-756 on high_score and the file.
HighScoreAfter(new_score, g) ==
    IF new_score > g.high_score
    THEN [high_score |-> new_score, file |-> [exists |-> TRUE, text |-> Format(new_score)]]
    ELSE [high_score |-> g.high_score, file |-> g.file]

\* Lines 721-756 on g = [level, score, score_multiplier, high_score, file]:
\* hit says whether the shape clicked has is_selected.
ScoreClick(g, hit) ==
    LET add_score == 10 * g.score_multiplier
        sub_score == (g.score * 1) \div 4
        new_score == IF hit THEN g.score + add_score ELSE Max(0, g.score - sub_score)
        kept == HighScoreAfter(new_score, g)
    IN  [level |-> IF hit THEN g.level + 1 ELSE LevelAfterMiss(g.level),
         score |-> new_score,
         score_multiplier |-> IF hit THEN g.score_multiplier + 1 ELSE 1,
         high_score |-> kept.high_score,
         file |-> kept.file]

\* The round after k correct clicks in a row.
RECURSIVE AfterHits(_, _)
AfterHits(g, k) == IF k = 0 THEN g ELSE AfterHits(ScoreClick(g, TRUE), k - 1)

\* Lines 436-453: the number of shapes build_shapes(level) returns.
ShapeCount(lvl) == IF lvl < 20 THEN 2 ELSE 3

\* A reset that leaves is_selected as it is.
ResetSelectedKept(self) == self

\* Line 247 of Shape::reset.
ResetSelected(self) == [self EXCEPT !.is_selected = FALSE]

\* A click handler that always resets the list it has in place.
NextShapesInPlace(old, count, idx) ==
    LET kept == IF old = <<>> THEN count ELSE Len(old)
        cleared == IF old # <<>>
                   THEN [i \in 1..kept |-> ResetSelected(old[i])]
                   ELSE [i \in 1..kept |-> [is_selected |-> FALSE]]
    IN  [cleared EXCEPT ![idx + 1] = [@ EXCEPT !.is_selected = TRUE]]

\* Lines 759-773 on the is_selected of the shapes: the list is reset in
\* place when build_shapes returns as many shapes as there are, replaced
\* by the new shapes (is_selected false, line 234) otherwise; then
\* play_audio marks shapes[idx], idx being selected_shape_idx (line 277).
NextShapes(old, count, idx) ==
    LET cleared == IF Len(old) = count
                   THEN [i \in 1..count |-> ResetSelected(old[i])]
                   ELSE [i \in 1..count |-> [is_selected |-> FALSE]]
    IN  [cleared EXCEPT ![idx + 1] = [@ EXCEPT !.is_selected = TRUE]]

\* const SIZE (line 24), in pixels.
SIZE == 96

\* pos of build_shapes (lines 350-354), in pixels: new_shapes[idx] is placed
\* at pos[idx] (lines 441-452) and reset copies the position (line 244).
pos == <<<<256, 384>>, <<768, 384>>, <<512, 384>>>>

\* x, y of Event::MouseButtonDown (line 706): far from every shape, the
\* three centres, and on both sides of the rim of shapes[0] and shapes[1].
MouseChoices ==
    {<<0, 0>>, <<256, 384>>, <<768, 384>>, <<512, 384>>,
     <<351, 384>>, <<352, 384>>, <<768, 289>>, <<768, 288>>}

\* A hit test that takes the rim of the circle as part of the shape.
HitTestInclusive(shps, mouse_pos) ==
    LET d(idx) == <<mouse_pos[1] - pos[idx + 1][1], mouse_pos[2] - pos[idx + 1][2]>>
        over == {idx \in 0..(Len(shps) - 1) :
                    d(idx)[1] * d(idx)[1] + d(idx)[2] * d(idx)[2] <= SIZE * SIZE}
    IN  IF over = {} THEN -1 ELSE CHOOSE idx \in over : \A other \in over : other <= idx

\* The hit test of lines 709-717: selected_idx, the last idx with
\* (mouse_pos - shape.position).magnitude() < SIZE, or -1.  x and y are
\* i32 and the positions whole pixels, so the difference and the sum of
\* its squares are exact in f32, and the correctly rounded square root of
\* an integer is below 96.0 exactly when the integer is below 96 * 96.
HitTest(shps, mouse_pos) ==
    LET d(idx) == <<mouse_pos[1] - pos[idx + 1][1], mouse_pos[2] - pos[idx + 1][2]>>
        over == {idx \in 0..(Len(shps) - 1) :
                    d(idx)[1] * d(idx)[1] + d(idx)[2] * d(idx)[2] < SIZE * SIZE}
    IN  IF over = {} THEN -1 ELSE CHOOSE idx \in over : \A other \in over : other <= idx

\* Lines 661-693, then any number of correct clicks up to MaxStartHits.
GameInit ==
    /\ UnitQuiet
    /\ FnQuiet
    /\ WaveQuiet
    /\ PopupQuiet
    /\ \E f \in FileChoices, k \in 0..MaxStartHits, idx \in SelectedShapeIdxChoices :
          LET g0 == [level |-> StartLevel, score |-> 0, score_multiplier |-> 1,
                     high_score |-> ReadHighScore(f), file |-> f]
              g == AfterHits(g0, k)
          IN  /\ MainQuietAt(g.level)
              /\ score = g.score
              /\ score_multiplier = g.score_multiplier
              /\ high_score = g.high_score
              /\ file = g.file
              /\ shapes = NextShapes(<<>>, ShapeCount(g.level), idx)
              /\ selected_shape_idx = idx
    /\ clicks = 0
    /\ last_click = [kind |-> "none", branch |-> "none", high_before |-> 0,
                   mouse_pos |-> <<0, 0>>]

\* Event::MouseButtonDown (lines 706-775) on score, level, high score and
\* the is_selected of the shapes; selected_idx is the result of the hit
\* test of lines 709-717, -1 when the click is on no shape.
GameMouseButtonDown ==
    /\ clicks < MaxClicks
    /\ clicks' = clicks + 1
    /\ \E mouse_pos \in MouseChoices :
          LET selected_idx == HitTest(shapes, mouse_pos) IN
          IF selected_idx = -1
          THEN /\ last_click' = [kind |-> "outside", branch |-> "none",
                                 high_before |-> high_score, mouse_pos |-> mouse_pos]
               /\ UNCHANGED <<level, score, score_multiplier, high_score, file, shapes,
                              selected_shape_idx>>
          ELSE \E idx \in SelectedShapeIdxChoices :
                 LET hit == shapes[selected_idx + 1].is_selected
                     g == ScoreClick([level |-> level, score |-> score,
                                      score_multiplier |-> score_multiplier,
                                      high_score |-> high_score, file |-> file], hit)
                 IN  /\ level' = g.level
                     /\ score' = g.score
                     /\ score_multiplier' = g.score_multiplier
                     /\ high_score' = g.high_score
                     /\ file' = g.file
                     /\ shapes' = NextShapes(shapes, ShapeCount(g.level), idx)
                     /\ selected_shape_idx' = idx
                     /\ last_click' =
                            [kind |-> IF hit THEN "hit" ELSE "miss",
                             branch |-> IF Len(shapes) = ShapeCount(g.level)
                                        THEN "reset" ELSE "replace",
                             high_before |-> high_score,
                             mouse_pos |-> mouse_pos]
    /\ UNCHANGED <<queue, mixer_vars, audio_pos, playing, game_pc, play_idx, history_vars,
                   shape, shape_given, shape_ops, lines, sm, fn_vars, wave_vars, popup_vars>>

GameSpec == GameInit /\ [][GameMouseButtonDown]_vars

(***************************************************************************)
(* build_shapes for every level (lines 345-456)                            *)
(***************************************************************************)
\* The lists build_shapes(lvl) can return, as set_channels.  new_shapes
\* takes slots 0, len-1 and (from level 20) len-2 of the shuffled Vec
\* (lines 436-453); the pool element that ends in each of these slots is
\* followed backwards through the len swaps of the shuffle loop (lines
\* 427-432), every swap exchanging some slot swap_idx with the last one.
BuildTaken(lvl) ==
    LET pool == ShapePool(lvl)
        n == Len(pool)
        slots == IF lvl < 20 THEN <<1, n>> ELSE <<1, n, n - 1>>
        Before(slot, swap_idx) ==
            IF slot = swap_idx THEN n ELSE IF slot = n THEN swap_idx ELSE slot
        RECURSIVE Origins(_, _)
        Origins(T, k) ==
            IF k = 0 THEN T
            ELSE Origins({[j \in DOMAIN t |-> Before(t[j], swap_idx)] :
                             t \in T, swap_idx \in 1..n}, k - 1)
    IN  {[j \in DOMAIN t |-> pool[t[j]]] : t \in Origins({slots}, n)}

BuildInit ==
    /\ \E lvl \in 1..MaxBuildLevel : MainQuietAt(lvl)
    /\ UnitQuiet
    /\ AsideInit

\* build_shapes(level) and its result shown (lines 692, 759-772): reset
\* copies the set_channels of the new shapes, replacement takes them.
BuildShapesCall ==
    /\ shapes = <<>>
    /\ \E new_shapes \in BuildTaken(level) :
          shapes' = [i \in 1..Len(new_shapes) |->
                       [set_channels |-> new_shapes[i], is_selected |-> FALSE]]
    /\ UNCHANGED <<base_vars, fn_vars, wave_vars, popup_vars,
                   score, score_multiplier, high_score, file, selected_shape_idx, clicks,
                   last_click>>

BuildSpec == BuildInit /\ [][BuildShapesCall]_vars

(***************************************************************************)
(* The game thread with its shapes, next to the audio thread               *)
(***************************************************************************)
\* A game that always plays its first shape.
PlayedFirst(shps, idx) == shps[1].set_channels

\* The set_channels that shapes[selected_shape_idx].play_audio sends
\* (lines 693, 773 and 273-276).
Played(shps, idx) == shps[idx + 1].set_channels

\* Lines 759-772 on the shapes, before play_audio: reset clears
\* is_selected and copies set_channels, replacement takes the new shapes.
ShownShapes(new_shapes) ==
    [i \in 1..Len(new_shapes) |-> [set_channels |-> new_shapes[i], is_selected |-> FALSE]]

\* Lines 619-693 up to the call of play_audio.
TuneInit ==
    /\ queue = <<>>
    /\ channels = [idx \in Slots |-> MixerChannelParamsDefault]
    /\ channel_targets = [idx \in Slots |-> MixerChannelParamsDefault]
    /\ time = F32Zero
    /\ cb_pc = "idle"
    /\ cb_x = 0
    /\ callbacks = 0
    /\ level = StartLevel
    /\ selected_shape_idx \in SelectedShapeIdxChoices
    /\ \E new_shapes \in BuildTaken(StartLevel) : shapes = ShownShapes(new_shapes)
    /\ playing = Played(shapes, selected_shape_idx)
    /\ game_pc = "play_audio"
    /\ play_idx = 0
    /\ sent_log = <<>>
    /\ applied_log = <<>>
    /\ cb_base = 0
    /\ cb_pending = <<>>
    /\ beep_age = 0
    /\ wraps = 0
    /\ UnitQuiet
    /\ FnQuiet
    /\ WaveQuiet
    /\ PopupQuiet
    /\ score = 0
    /\ score_multiplier = 1
    /\ high_score = 0
    /\ file = NoFile
    /\ clicks = 0
    /\ last_click = [kind |-> "none", branch |-> "none", high_before |-> 0,
                   mouse_pos |-> <<0, 0>>]

\* One iteration of the loop of Shape::play_audio (lines 273-276); after
\* the last one is_selected is set (line 277) and play_audio returns.
TunePlayAudioSend ==
    /\ game_pc = "play_audio"
    /\ Len(sent_log) < TuneSends
    /\ SendReady(queue)
    /\ LET c == playing[play_idx + 1]
       IN  /\ queue' = ChannelSend(queue, c)
           /\ sent_log' = Append(sent_log, c)
    /\ IF play_idx + 1 < 3
       THEN /\ play_idx' = play_idx + 1
            /\ UNCHANGED <<game_pc, shapes>>
       ELSE /\ play_idx' = 0
            /\ game_pc' = "idle"
            /\ shapes' = [shapes EXCEPT ![selected_shape_idx + 1] =
                             [@ EXCEPT !.is_selected = TRUE]]
    /\ UNCHANGED <<mixer_vars, audio_pos, level, playing,
                   applied_log, cb_base, cb_pending, beep_age, wraps,
                   shape, shape_given, shape_ops, lines, sm, fn_vars, wave_vars, popup_vars,
                   score, score_multiplier, high_score, file, selected_shape_idx, clicks,
                   last_click>>

\* Event::MouseButtonDown (lines 706-775) with x, y from mouse_choices, up
\* to the call of play_audio: the hit test, then for a click on a shape
\* score, level and high score, the popup and the Beep, the next round's
\* shapes and the draw of the shape to play.  The popup carries the number
\* of its push for its text.
TuneMouseButtonDown(mouse_choices) ==
    /\ game_pc = "idle"
    /\ clicks < MaxClicks
    /\ clicks' = clicks + 1
    /\ \E mouse_pos \in mouse_choices :
          LET selected_idx == HitTest(shapes, mouse_pos) IN
          IF selected_idx = -1
          THEN /\ last_click' = [kind |-> "outside", branch |-> "none",
                                 high_before |-> high_score, mouse_pos |-> mouse_pos]
               /\ UNCHANGED <<queue, sent_log, level, score, score_multiplier, high_score,
                              file, selected_shape_idx, shapes, playing, game_pc, play_idx,
                              popup_texts, popup_count>>
          ELSE /\ Len(sent_log) < TuneSends
               /\ SendReady(queue)
               /\ \E idx \in SelectedShapeIdxChoices :
                     LET hit == shapes[selected_idx + 1].is_selected
                         c == IF hit THEN Beep(Hz1670) ELSE Beep(Hz110)
                         g == ScoreClick([level |-> level, score |-> score,
                                          score_multiplier |-> score_multiplier,
                                          high_score |-> high_score, file |-> file], hit)
                     IN  /\ queue' = ChannelSend(queue, c)
                         /\ sent_log' = Append(sent_log, c)
                         /\ level' = g.level
                         /\ score' = g.score
                         /\ score_multiplier' = g.score_multiplier
                         /\ high_score' = g.high_score
                         /\ file' = g.file
                         /\ popup_texts' = Append(popup_texts,
                                [id |-> popup_count.pushed + 1,
                                 position |-> <<F32FromInt(mouse_pos[1]),
                                                F32FromInt(mouse_pos[2])>>,
                                 time |-> Two])
                         /\ popup_count' = [popup_count EXCEPT !.pushed = @ + 1]
                         /\ selected_shape_idx' = idx
                         /\ \E new_shapes \in BuildTaken(g.level) :
                               shapes' = ShownShapes(new_shapes)
                         /\ playing' = Played(shapes', idx)
                         /\ last_click' = [kind |-> IF hit THEN "hit" ELSE "miss",
                                           branch |-> IF Len(shapes) = Len(shapes')
                                                      THEN "reset" ELSE "replace",
                                           high_before |-> high_score,
                                           mouse_pos |-> mouse_pos]
                         /\ game_pc' = "play_audio"
                         /\ play_idx' = 0
    /\ UNCHANGED <<mixer_vars, audio_pos, applied_log, cb_base, cb_pending, beep_age, wraps,
                   shape, shape_given, shape_ops, lines, sm, fn_vars, wave_vars,
                   popup_idx, popup_pc, popup_frame, popup_steps>>

\* The game thread and the audio thread; the clicks are on the centres of
\* shapes[0] and shapes[1].
TuneSpec ==
    /\ TuneInit
    /\ [][\/ TunePlayAudioSend
          \/ TuneMouseButtonDown({pos[1], pos[2]})
          \/ CallbackStart(TuneCallbacks)
          \/ TryRecvOk
          \/ TryRecvErr
          \/ Sample(TuneOutLen)]_vars

\* The game thread alone, with clicks on and off the shapes.
ClickSpec ==
    /\ TuneInit
    /\ [][\/ TunePlayAudioSend
          \/ TuneMouseButtonDown(MouseChoices)]_vars

(***************************************************************************)
(* PopupText and the popup loop of a frame (lines 564-594, 818-836)        *)
(***************************************************************************)
\* The frame times the loop is run with: tick is 0.0 in the first frame
\* (line 659) and the time the last frame took afterwards.
PopupTicks == {F32Zero, Half, One, Two}

\* PopupText::draw (lines 587-593) on the popup: position and time.
PopupDraw(self, tick) ==
    [self EXCEPT !.position = <<F32Sub(@[1], F32Mul(F32Zero, tick)),
                                F32Sub(@[2], F32Mul(F32Mul(PopupScale, Four), tick))>>,
                 !.time = F32Sub(@, tick)]

\* remove(idx) of Vec (line 829); idx counts from 0.
Remove(s, idx) == [k \in 1..(Len(s) - 1) |-> IF k <= idx THEN s[k] ELSE s[k + 1]]

\* A loop that moves on after a removal as well.
PopupNextIdxAlways(idx, alive) == idx + 1

\* Lines 827-834: idx stays when the popup at idx was removed.
PopupNextIdx(idx, alive) == IF alive THEN idx + 1 ELSE idx

\* popup_texts.push(PopupText::new(mouse_pos, 32.0, color, 2.0, text)) of
\* a click on a shape (lines 728, 746); id stands for the text.
PopupPush ==
    /\ popup_pc = "idle"
    /\ popup_count.pushed < MaxPopups
    /\ \E mouse_pos \in PositionChoices :
          popup_texts' = Append(popup_texts,
              [id |-> popup_count.pushed + 1,
               position |-> <<F32FromInt(mouse_pos[1]), F32FromInt(mouse_pos[2])>>,
               time |-> Two])
    /\ popup_count' = [popup_count EXCEPT !.pushed = @ + 1]
    /\ UNCHANGED <<base_vars, fn_vars, wave_vars, round_vars,
                   popup_idx, popup_pc, popup_frame, popup_steps>>

\* Line 820: the frame reaches the popup loop with its tick.
PopupLoopStart ==
    /\ popup_pc = "idle"
    /\ popup_count.frames < MaxFrames
    /\ \E tick \in PopupTicks :
          popup_frame' = [tick |-> tick, start |-> popup_texts, drawn |-> <<>>]
    /\ popup_idx' = 0
    /\ popup_pc' = "loop"
    /\ popup_steps' = 0
    /\ popup_count' = [popup_count EXCEPT !.frames = @ + 1]
    /\ UNCHANGED <<base_vars, fn_vars, wave_vars, round_vars, popup_texts>>

\* That the loop takes one more iteration.
PopupLoopControl ==
    /\ popup_pc = "loop"
    /\ popup_steps' = popup_steps + 1

\* One iteration of the loop (lines 823-834).
PopupLoopStep ==
    /\ PopupLoopControl
    /\ IF popup_idx >= Len(popup_texts)
       THEN /\ popup_pc' = "idle"
            /\ UNCHANGED <<popup_texts, popup_idx, popup_frame>>
       ELSE LET drawn == PopupDraw(popup_texts[popup_idx + 1], popup_frame.tick)
                alive == F32Lt(F32Zero, drawn.time)
            IN  /\ popup_frame' = [popup_frame EXCEPT
                                      !.drawn = Append(@, popup_texts[popup_idx + 1].id)]
                /\ popup_texts' =
                       IF alive THEN [popup_texts EXCEPT ![popup_idx + 1] = drawn]
                       ELSE Remove(popup_texts, popup_idx)
                /\ popup_idx' = PopupNextIdx(popup_idx, alive)
                /\ UNCHANGED popup_pc
    /\ UNCHANGED <<base_vars, fn_vars, wave_vars, round_vars, popup_count>>

\* The frame goes on: a loop that can take an iteration takes it.
PopupSpec ==
    /\ QuietInit
    /\ [][PopupPush \/ PopupLoopStart \/ PopupLoopStep]_vars
    /\ WF_popup_steps(PopupLoopControl)

(***************************************************************************)
(* Properties of the command channel and the drain loop                    *)
(***************************************************************************)
\* The slot a command retargets.
SlotOf(c) ==
    IF c[1] = "Sine" THEN 0
    ELSE IF c[1] = "Square" THEN 1
    ELSE IF c[1] = "Sawtooth" THEN 2
    ELSE 3

IsPrefix(s, t) == Len(s) <= Len(t) /\ SubSeq(t, 1, Len(s)) = s

\* C1: every command sent is applied to the channel targets exactly once:
\* at every moment the commands sent are, in order, the commands already
\* applied followed by the commands still in the queue; none is applied
\* twice and none is lost, whatever the interleaving of sends and drains.
C1_ExactlyOnce == sent_log = applied_log \o queue

\* A drain is under way with commands applied, commands still queued and
\* the game thread in the middle of play_audio.
C1_Witness ==
    /\ cb_pc = "drain"
    /\ Len(applied_log) >= 2
    /\ Len(queue) >= 2
    /\ game_pc = "play_audio"
    /\ play_idx > 0

\* C2: a callback applies every command that was queued when it started,
\* in the order sent (the applied commands are a prefix of the sent ones),
\* drains only before its first output sample, and once a receive has
\* found the queue empty it applies nothing more.
C2_DrainAllInOrder ==
    /\ [](/\ IsPrefix(applied_log, sent_log)
          /\ cb_pc = "drain" => cb_x = 0
          /\ cb_pc = "synth" =>
                /\ Len(applied_log) >= cb_base + Len(cb_pending)
                /\ SubSeq(applied_log, cb_base + 1, cb_base + Len(cb_pending)) = cb_pending)
    /\ [][/\ (cb_pc = "synth" \/ cb_pc = "idle") => applied_log' = applied_log
          /\ (cb_pc = "drain" /\ queue = <<>>) => cb_pc' \in {"drain", "synth"}
          /\ (cb_pc = "drain" /\ cb_pc' = "synth") => (queue = <<>> /\ cb_x' = 0)]_vars

\* A callback that started with three commands queued has reached its
\* sample loop.
C2_Witness ==
    /\ cb_pc = "synth"
    /\ Len(cb_pending) >= 3
    /\ cb_base > 0

\* C3: draining a command gives the target of its slot (Sine 0, Square 1,
\* Sawtooth 2, Beep 3) phase_inc = frequency / sample rate and the command's
\* volume (8.0 for a Beep), and leaves every other slot's target and all
\* live values unchanged.
C3_RetargetOneSlot ==
    [][Len(applied_log') > Len(applied_log) =>
        LET c == applied_log'[Len(applied_log')]
            slot == IF c[1] = "Sine" THEN 0
                    ELSE IF c[1] = "Square" THEN 1
                    ELSE IF c[1] = "Sawtooth" THEN 2
                    ELSE 3
        IN  /\ channel_targets'[slot].phase_inc = F32Div(c[2], freq)
            /\ channel_targets'[slot].volume = (IF c[1] = "Beep" THEN BeepVolume ELSE c[3])
            /\ \A other \in Slots \ {slot} : channel_targets'[other] = channel_targets[other]
            /\ channels' = channels]_vars

\* A Sawtooth command has just been drained in a callback that found live
\* values already moved by earlier samples.
C3_Witness ==
    /\ cb_pc = "drain"
    /\ Len(applied_log) > cb_base
    /\ applied_log[Len(applied_log)][1] = "Sawtooth"
    /\ channels[0].phase_inc # F32Zero

\* C4: after a Beep has been drained and before the next sample, the phase
\* of slot 3 that the sample loop advances is 0.
C4_BeepResetsLivePhase ==
    (beep_age = 0 /\ \E i \in DOMAIN applied_log : applied_log[i][1] = "Beep")
        => channels[3].phase = F32Zero

\* C5 as stated: the targets change only when a command is drained.
C5_TargetsOnlyByDrain ==
    [][channel_targets' # channel_targets => Len(applied_log') > Len(applied_log)]_vars

\* C5, amended: outside a drain the targets of slots 0..2 and the target
\* phase_inc and phase of slot 3 never change; the target volume of slot 3
\* changes only in a sample step, which multiplies it by 0.995; a sample
\* step leaves the queue alone.
C5_TargetsByDrainOrBeepDecay ==
    [][Len(applied_log') = Len(applied_log) =>
        /\ \A idx \in 0..2 : channel_targets'[idx] = channel_targets[idx]
        /\ channel_targets'[3].phase_inc = channel_targets[3].phase_inc
        /\ channel_targets'[3].phase = channel_targets[3].phase
        /\ channel_targets'[3].volume # channel_targets[3].volume => cb_x' = cb_x + 1
        /\ cb_x' = cb_x + 1 =>
              /\ channel_targets'[3].volume = F32Mul(channel_targets[3].volume, BeepDecay)
              /\ queue' = queue]_vars

\* Samples have run after a Beep was drained: the Beep target volume has
\* decayed below 8.0 while the targets of the other slots are set.
C5_Witness ==
    /\ beep_age >= 2
    /\ channel_targets[3].volume # F32Zero
    /\ F32Lt(channel_targets[3].volume, BeepVolume)
    /\ channel_targets[0].phase_inc # F32Zero

\* The last command sent for a slot.
RECURSIVE LastFor(_, _, _)
LastFor(log, slot, n) ==
    IF n = 0 THEN <<>>
    ELSE IF SlotOf(log[n]) = slot THEN log[n]
    ELSE LastFor(log, slot, n - 1)

RECURSIVE Decayed(_, _)
Decayed(v, n) == IF n = 0 THEN v ELSE Decayed(F32Mul(v, BeepDecay), n - 1)

\* C6: last write wins.  Whenever no command for a slot is still queued,
\* the slot's target is that of the command sent last for it, whatever was
\* sent before: phase_inc = frequency / sample rate and, for slots 0..2, the
\* command's volume; for the Beep slot the fixed 8.0 decayed once per sample
\* computed since that Beep was drained.
C6_LastWriteWins ==
    \A slot \in Slots :
        LET c == LastFor(sent_log, slot, Len(sent_log))
        IN  (c # <<>> /\ \A i \in DOMAIN queue : SlotOf(queue[i]) # slot) =>
                /\ channel_targets[slot].phase_inc = F32Div(c[2], freq)
                /\ channel_targets[slot].volume =
                      (IF slot = 3 THEN Decayed(BeepVolume, beep_age) ELSE c[3])

\* Two different commands for slot 0 were sent and both have been drained.
C6_Witness ==
    /\ queue = <<>>
    /\ Cardinality({sent_log[i] : i \in {j \in DOMAIN sent_log : SlotOf(sent_log[j]) = 0}}) >= 2

\* C7: neither thread waits on the other.  The game thread's send is enabled
\* whatever the queue holds; a receive that finds the queue empty is enabled
\* and leads straight to the sample loop, which is enabled until the whole
\* output buffer is written; the drain loop is left only on an empty queue;
\* and, the sends being finitely many, every callback that has started
\* returns.
C7_NeitherThreadWaits ==
    /\ [](/\ (game_pc = "play_audio" /\ Len(sent_log) < MaxSends) => ENABLED PlayAudioSend(MaxSends)
          /\ (game_pc = "idle" /\ Len(sent_log) < MaxSends) => ENABLED MouseButtonDown(TRUE, MaxSends)
          /\ (cb_pc = "drain" /\ queue = <<>>) => ENABLED TryRecvErr
          /\ (cb_pc = "drain" /\ queue # <<>>) => ENABLED TryRecvOkControl
          /\ cb_pc = "synth" => ENABLED SampleControl(OutLen))
    /\ [][/\ (cb_pc = "drain" /\ cb_pc' # "drain") => (queue = <<>> /\ cb_pc' = "synth" /\ cb_x' = 0)
          /\ (cb_pc = "synth" /\ cb_pc' # "synth") => (cb_pc' = "idle" /\ cb_x' = OutLen)]_vars
    /\ (cb_pc # "idle") ~> (cb_pc = "idle")

\* A callback has returned while the game thread goes on sending into a
\* queue that already holds three commands.
C7_Witness ==
    /\ cb_pc = "idle"
    /\ callbacks >= 1
    /\ cb_x = OutLen
    /\ Len(queue) >= 3
    /\ Len(sent_log) < MaxSends

\* C8: the phase of every slot lies in [0, 1).
C8_PhaseInUnitInterval ==
    \A idx \in Slots : F32Le(F32Zero, channels[idx].phase) /\ F32Lt(channels[idx].phase, One)

\* A phase has wrapped around and is running again.
C8_Witness ==
    /\ wraps > 0
    /\ \E idx \in Slots : channels[idx].phase # F32Zero

(***************************************************************************)
(* Properties of smoothing and of Shape                                    *)
(***************************************************************************)
\* v moves toward the target: it stays between its old value and the
\* target.  For non-negative f32 the order of the bit patterns is the
\* order of the values.
TowardTarget(v, target, next_v) ==
    /\ F32Le(v, target) => (F32Le(v, next_v) /\ F32Le(next_v, target))
    /\ F32Le(target, v) => (F32Le(target, next_v) /\ F32Le(next_v, v))

\* C9 as stated: with a fixed target and non-negative values every
\* smoothing step moves v toward the target, the distance never growing
\* and v never passing the target.
C9_MonotoneNoOvershoot ==
    [][TowardTarget(sm.v, sm.target, sm'.v)]_vars

\* C9, amended: every smoothing step leaves v no further than one unit in
\* the last place outside the interval between its old value and the
\* target; and started at 0 with a target the game sets, every step moves
\* v toward the target, never past it.
C9_TowardTargetUpToRounding ==
    [][/\ Min(sm.v, sm.target) - 1 <= sm'.v
       /\ sm'.v <= Max(sm.v, sm.target) + 1
       /\ sm.from_zero => TowardTarget(sm.v, sm.target, sm'.v)]_vars

\* The mixer's smoothing, started at 0, has come to rest above 0 and below
\* its target.
C9_Witness ==
    /\ sm.kind = "mixer"
    /\ sm.from_zero
    /\ F32Lt(F32Zero, sm.v)
    /\ F32Lt(sm.v, sm.target)
    /\ MixerSmooth(sm.v, sm.target) = sm.v

\* C10: the vertex buffer of a Shape has the length given to Shape::new,
\* whatever update, set_target, reset, play_audio and draw calls were made.
C10_PointsLengthFixed ==
    Len(shape.points) = shape_given

\* A shape of three vertices has been reset from a shape of another size,
\* played and drawn.
C10_Witness ==
    /\ shape_given = 3
    /\ shape_ops >= 3
    /\ shape.is_selected
    /\ shape.position # <<0, 0>>
    /\ Len(lines) = 3
    /\ Len(queue) = 3

\* C11: a vertex count of 0 is rejected at construction: no Shape that
\* Shape::new has returned has an empty vertex buffer.
C11_ZeroCountRejected == Len(shape.points) > 0

(***************************************************************************)
(* Properties of the function-driven Shape                                 *)
(***************************************************************************)
\* The shape is settled on the function given to the last set_next and
\* its vertices are those of that function alone.
SettledOnTarget ==
    /\ fshape.current = fn_target
    /\ fshape.next = NoFn
    /\ fshape.vertices = FnVertices(fn_target, NoFn, F32Zero)

\* C12 as stated: after set_next, four updates with tick = 0.25 have
\* triggered exactly one current/next swap, and after a fifth update the
\* vertices are those of the new current function only, still with one swap.
C12_FourUpdatesSwap ==
    (fn_target # NoFn /\ fn_quarter) =>
        /\ fn_since = 4 => (fn_swaps = 1 /\ fshape.current = fn_target)
        /\ fn_since = 5 => (fn_swaps = 1 /\ SettledOnTarget)

\* C12, amended: after set_next, four updates with tick = 0.25 drive morph
\* from 0 to exactly 1 in steps of 0.25 with no swap, the shape still
\* morphing; the fifth update takes morph above 1 and makes the one swap,
\* morph back at 0; from then on the shape is settled on the new function
\* and further updates swap nothing.
C12_FifthUpdateSwaps ==
    (fn_target # NoFn /\ fn_quarter) =>
        /\ fn_since <= 4 =>
              /\ fn_swaps = 0
              /\ fshape.next = fn_target
              /\ fshape.morph = F32Mul(F32FromInt(fn_since), QuarterTick)
              /\ fn_since > 0 =>
                    fshape.vertices = FnVertices(fshape.current, fn_target, fshape.morph)
        /\ fn_since = 4 => fshape.morph = One
        /\ fn_since >= 5 =>
              /\ fn_swaps = 1
              /\ SettledOnTarget
              /\ fshape.morph = F32Zero

\* Six updates with tick = 0.25 after a set_next: the swap has been made
\* and an update has run on the settled shape.
C12_Witness ==
    /\ fn_target # NoFn
    /\ fn_quarter
    /\ fn_since = 6
    /\ fn_swaps = 1
    /\ SettledOnTarget

(***************************************************************************)
(* Properties of the wave functions                                        *)
(***************************************************************************)
\* x is in [0, 1).
InUnit(x) == F32Le(F32Zero, x) /\ F32Lt(x, One)

\* C13 as stated: for x in [0, 1), with m = (2x) mod 2 (which is 2x there),
\* square_wave(x) is -1 when m < 1, that is x < 0.5, and +1 otherwise.
C13_LowBelowOne ==
    (wave_evals > 0 /\ InUnit(wave.x)) =>
        wave.square = (IF F32Lt(wave.x, Half) THEN MinusOne ELSE One)

\* C13, amended: for x in [0, 1), square_wave(x) is +1 when m <= 1, that
\* is x <= 0.5, and -1 when m > 1, that is x > 0.5.
C13_HighUpToOne ==
    (wave_evals > 0 /\ InUnit(wave.x)) =>
        wave.square = (IF F32Le(wave.x, Half) THEN One ELSE MinusOne)

\* square_wave has been evaluated at x = 0.5, where m = 1 exactly.
C13_Witness ==
    /\ wave_evals > 0
    /\ wave.x = Half
    /\ wave.square = One

\* x + 1.0 was computed without rounding error: it differs from x and
\* subtracting 1.0 gives x back.
NextExact == wave.next_x # wave.x /\ F32Sub(wave.next_x, One) = wave.x

C15_HighScoreKept ==
    last_click.kind \in {"hit", "miss"} =>
        /\ high_score >= score
        /\ high_score >= last_click.high_before
        /\ high_score > last_click.high_before =>
              /\ file = [exists |-> TRUE, text |-> Format(high_score)]
              /\ ReadHighScore(file) = high_score

\* A click on the correct shape has raised a high score that was read
\* from a file holding a positive number, and the file holds the new one.
C15_Witness ==
    /\ last_click.kind = "hit"
    /\ last_click.high_before > 0
    /\ high_score > last_click.high_before
    /\ high_score = score
    /\ file.text = Format(score)

\* C18: after initialization and after every mouse event exactly one shape
\* of the list has is_selected, whether the list was reset or replaced.
C18_ExactlyOneSelected ==
    Cardinality({i \in 1..Len(shapes) : shapes[i].is_selected}) = 1

\* A correct click in a three-shape round has kept the list and reset its
\* shapes, and play_audio has marked the first one.
C18_Witness ==
    /\ last_click.branch = "reset"
    /\ last_click.kind = "hit"
    /\ Len(shapes) = 3
    /\ shapes[1].is_selected
    /\ ~shapes[2].is_selected

\* C20: in a round that shows three shapes each of the indices 0, 1 and 2
\* is a possible choice of the shape that is marked and played.
C20_EveryIndexPossible ==
    Len(shapes) = 3 => \A idx \in 0..2 : idx \in SelectedShapeIdxChoices

(***************************************************************************)
(* Properties of the popup loop                                            *)
(***************************************************************************)
\* The id of each element of a sequence of popups.
Ids(s) == [k \in 1..Len(s) |-> s[k].id]

\* C16: in each frame the popup loop draws every popup present at its
\* start exactly once and in order, leaves exactly those whose time is
\* still > 0 after subtracting tick, in their order and with that time,
\* takes one iteration per popup and one more to leave, and ends.
C16_PopupLoop ==
    /\ [](/\ popup_steps <= Len(popup_frame.start) + 1
          /\ popup_pc = "loop" =>
                Ids(popup_frame.start) =
                    popup_frame.drawn \o Ids(SubSeq(popup_texts, popup_idx + 1, Len(popup_texts))))
    /\ [][(popup_pc = "loop" /\ popup_pc' = "idle") =>
            LET Left(p) == F32Sub(p.time, popup_frame.tick)
                Alive(p) == F32Lt(F32Zero, Left(p))
                kept == SelectSeq(popup_frame.start, Alive)
            IN  /\ popup_frame'.drawn = Ids(popup_frame.start)
                /\ Ids(popup_texts') = Ids(kept)
                /\ \A k \in 1..Len(kept) : popup_texts'[k].time = Left(kept[k])]_vars
    /\ (popup_pc = "loop") ~> (popup_pc = "idle")

\* A frame has removed the first of three popups and kept the two behind
\* it.
C16_Witness ==
    /\ popup_pc = "idle"
    /\ Ids(popup_frame.start) = <<1, 2, 3>>
    /\ popup_frame.drawn = <<1, 2, 3>>
    /\ Ids(popup_texts) = <<2, 3>>

(***************************************************************************)
(* Properties of build_shapes                                              *)
(***************************************************************************)
\* C19: the shapes shown in a round have pairwise distinct channel
\* settings, for every level and every outcome of the shuffle.
C19_DistinctSettings ==
    \A i, j \in 1..Len(shapes) :
        i # j => shapes[i].set_channels # shapes[j].set_channels

\* A round of level 30 or more shows a 440 Hz shape next to a shape of
\* the inverted 440 Hz group, which differ in their volumes only.
C19_Witness ==
    /\ level >= 30
    /\ Len(shapes) = 3
    /\ shapes[1].set_channels = ShapeGroup(Hz440, FALSE)[1]
    /\ shapes[2].set_channels = ShapeGroup(Hz440, TRUE)[2]

(***************************************************************************)
(* Properties of the sound of a round                                      *)
(***************************************************************************)
\* C17: the sound matches the shape marked correct.  After a click the
\* Beep is sent first and then the three commands of the chosen shape;
\* and when play_audio has returned and the queue is drained, exactly one
\* shape has is_selected and the targets of slots 0, 1, 2 are (frequency /
\* sample rate, volume) of its Sine, Square and Sawtooth settings.
C17_SoundMatchesSelected ==
    game_pc = "idle" =>
        LET n == Len(sent_log)
            marked == {i \in 1..Len(shapes) : shapes[i].is_selected}
        IN  /\ Cardinality(marked) = 1
            /\ \A i \in marked :
                  /\ SubSeq(sent_log, n - 2, n) = shapes[i].set_channels
                  /\ n > 3 => sent_log[n - 3][1] = "Beep"
                  /\ queue = <<>> =>
                        \A idx \in 0..2 :
                            /\ shapes[i].set_channels[idx + 1][1] = <<"Sine", "Square", "Sawtooth">>[idx + 1]
                            /\ channel_targets[idx].phase_inc =
                                   F32Div(shapes[i].set_channels[idx + 1][2], freq)
                            /\ channel_targets[idx].volume = shapes[i].set_channels[idx + 1][3]

\* After a click the callback has drained the Beep and the commands of a
\* second shape, other than the one played first.
C17_Witness ==
    /\ game_pc = "idle"
    /\ queue = <<>>
    /\ Len(sent_log) = 7
    /\ applied_log = sent_log
    /\ SubSeq(sent_log, 1, 3) # SubSeq(sent_log, 5, 7)
    /\ \E i \in 1..Len(shapes) :
          shapes[i].is_selected /\ shapes[i].set_channels = SubSeq(sent_log, 5, 7)

\* C21: after initialization and after every click the list has 2 shapes
\* when level < 20 and 3 shapes when level >= 20, and each swap_remove(0)
\* of build_shapes(level) (one per shape shown) finds a shape in the pool.
C21_ShapeCountByLevel ==
    /\ level >= 1
    /\ level < 20 => Len(shapes) = 2
    /\ level >= 20 => Len(shapes) = 3
    /\ \A removed \in 0..(Len(shapes) - 1) : Len(ShapePool(level)) - removed > 0

\* A correct click at level 19 has replaced the two shapes by three, and
\* a wrong click at level 20 has replaced the three shapes by two.
C21_Witness ==
    /\ clicks = 2
    /\ level = 15
    /\ Len(shapes) = 2
    /\ last_click.kind = "miss"
    /\ last_click.branch = "replace"

C23_ClickOutsideChangesNothing ==
    [][(/\ clicks' = clicks + 1
        /\ \A idx \in 0..(Len(shapes) - 1) :
              LET dx == last_click'.mouse_pos[1] - pos[idx + 1][1]
                  dy == last_click'.mouse_pos[2] - pos[idx + 1][2]
              IN  dx * dx + dy * dy >= SIZE * SIZE)
       => UNCHANGED <<score, level, score_multiplier, high_score, file, shapes,
                      selected_shape_idx, playing, game_pc, play_idx, popup_texts,
                      popup_count, queue, sent_log, channels, channel_targets>>]_vars

\* After a round with its popup and its four commands, a click on the rim
\* of shapes[0], 96 pixels right of its centre.
C23_Witness ==
    /\ clicks = 2
    /\ last_click.kind = "outside"
    /\ last_click.mouse_pos = <<352, 384>>
    /\ Len(popup_texts) = 1
    /\ Len(sent_log) = 7
    /\ Len(queue) = 7

====
